---------------------------- MODULE Spec2Model ----------------------------
(***************************************************************************)
(* Model of src/recieve_logonlogoff.py: the Lambda handler that validates  *)
(* a logon/logoff event and stores it in S3 under a date-partitioned key.  *)
(*                                                                         *)
(* Text is modelled as a sequence of characters; a character is a          *)
(* one-element token.  ASCII characters are written as themselves, the     *)
(* non-ASCII characters the inputs use are named by their code point.      *)
(***************************************************************************)
EXTENDS Integers, Sequences, FiniteSets, TLC

(***************************************************************************)
(* Characters                                                              *)
(***************************************************************************)
AsciiDigitSeq == <<"0", "1", "2", "3", "4", "5", "6", "7", "8", "9">>

AsciiDigits == {AsciiDigitSeq[i] : i \in 1..10}

AsciiLower ==
    {"a", "b", "c", "d", "e", "f", "g", "h", "i", "j", "k", "l", "m",
     "n", "o", "p", "q", "r", "s", "t", "u", "v", "w", "x", "y", "z"}

AsciiUpper ==
    {"A", "B", "C", "D", "E", "F", "G", "H", "I", "J", "K", "L", "M",
     "N", "O", "P", "Q", "R", "S", "T", "U", "V", "W", "X", "Y", "Z"}

AsciiPunct == {" ", "-", ":", "/", "_", "!", ".", "=", "[", "]"}

AsciiChars == AsciiDigits \cup AsciiLower \cup AsciiUpper \cup AsciiPunct

\* U+FF11, U+FF12: FULLWIDTH DIGIT ONE / TWO (category Nd, in cp932).
\* U+0662, U+0665: ARABIC-INDIC DIGIT TWO / FIVE (category Nd, not in cp932).
\* U+30E6: KATAKANA LETTER YU (a letter, in cp932).
FullwidthDigits == {"U+FF11", "U+FF12"}

ArabicIndicDigits == {"U+0662", "U+0665"}

\* Python's \d on a str pattern: every character of Unicode category Nd.
IsDigit(c) == c \in AsciiDigits \cup FullwidthDigits \cup ArabicIndicDigits

\* int() of one decimal digit character.
DigitVal(c) ==
    CASE c \in AsciiDigits -> (CHOOSE i \in 0..9 : AsciiDigitSeq[i + 1] = c)
      [] c = "U+FF11" -> 1
      [] c = "U+FF12" -> 2
      [] c = "U+0662" -> 2
      [] c = "U+0665" -> 5

\* Number of bytes of one character under str.encode("utf-8").
Utf8Len(c) ==
    IF c \in AsciiChars THEN 1
    ELSE IF c \in ArabicIndicDigits THEN 2
    ELSE 3

\* Whether str.encode("cp932") can encode the character.
Cp932Ok(c) == c \notin ArabicIndicDigits

(***************************************************************************)
(* Strings                                                                 *)
(***************************************************************************)
RECURSIVE SumUtf8(_)
SumUtf8(s) == IF s = <<>> THEN 0 ELSE Utf8Len(Head(s)) + SumUtf8(Tail(s))

\* len(s.encode("utf-8"))
Utf8ByteLen(s) == SumUtf8(s)

\* s.encode("cp932") succeeds
Cp932Encodable(s) == \A i \in 1..Len(s) : Cp932Ok(s[i])

\* s.replace(old, new) for one-character old and new
Replace(s, old, new) == [i \in 1..Len(s) |-> IF s[i] = old THEN new ELSE s[i]]

\* int(s) for a string of decimal digits
RECURSIVE IntOf(_)
IntOf(s) ==
    IF s = <<>> THEN 0
    ELSE 10 * IntOf(SubSeq(s, 1, Len(s) - 1)) + DigitVal(s[Len(s)])

\* n copies of the character c
Repeat(c, n) == [i \in 1..n |-> c]


(***************************************************************************)
(* Calendar arithmetic of datetime.date, as compute_base_date_str uses it  *)
(* (strptime's range checks, date - timedelta(days=1), strftime).          *)
(***************************************************************************)
IsLeap(y) == y % 4 = 0 /\ (y % 100 # 0 \/ y % 400 = 0)

DaysInMonthSeq == <<31, 28, 31, 30, 31, 30, 31, 31, 30, 31, 30, 31>>

DaysBeforeMonthSeq == <<0, 31, 59, 90, 120, 151, 181, 212, 243, 273, 304, 334>>

DaysInMonth(y, m) == IF m = 2 /\ IsLeap(y) THEN 29 ELSE DaysInMonthSeq[m]

DaysBeforeYear(year) ==
    LET y == year - 1 IN y * 365 + (y \div 4) - (y \div 100) + (y \div 400)

DaysBeforeMonth(y, m) ==
    DaysBeforeMonthSeq[m] + (IF m > 2 /\ IsLeap(y) THEN 1 ELSE 0)

\* date.toordinal(): 0001-01-01 is day 1
Ymd2Ord(y, m, d) == DaysBeforeYear(y) + DaysBeforeMonth(y, m) + d

\* date.fromordinal(n)
Ord2Ymd(ord) ==
    LET n0   == ord - 1
        n400 == n0 \div 146097
        r400 == n0 % 146097
        n100 == r400 \div 36524
        r100 == r400 % 36524
        n4   == r100 \div 1461
        r4   == r100 % 1461
        n1   == r4 \div 365
        n    == r4 % 365
        year == n400 * 400 + 1 + n100 * 100 + n4 * 4 + n1
    IN  IF n1 = 4 \/ n100 = 4
        THEN [y |-> year - 1, m |-> 12, d |-> 31]
        ELSE LET leap  == n1 = 3 /\ (n4 # 24 \/ n100 = 3)
                 m0    == (n + 50) \div 32
                 prec0 == DaysBeforeMonthSeq[m0]
                            + (IF m0 > 2 /\ leap THEN 1 ELSE 0)
                 month == IF prec0 > n THEN m0 - 1 ELSE m0
                 prec  == IF prec0 > n
                          THEN prec0 - (DaysInMonthSeq[month]
                                 + (IF month = 2 /\ leap THEN 1 ELSE 0))
                          ELSE prec0
             IN  [y |-> year, m |-> month, d |-> n - prec + 1]

\* date.max.toordinal(): 9999-12-31
MaxOrdinal == Ymd2Ord(9999, 12, 31)

\* date - datetime.timedelta(days=1): OverflowError below 0001-01-01
MinusOneDay(date) ==
    LET o == Ymd2Ord(date.y, date.m, date.d) - 1
    IN  IF 0 < o /\ o <= MaxOrdinal
        THEN [ok |-> TRUE, date |-> Ord2Ymd(o)]
        ELSE [ok |-> FALSE, date |-> date]

\* n as exactly two decimal digits (n in 0..99)
TwoDigits(n) == <<AsciiDigitSeq[(n \div 10) + 1], AsciiDigitSeq[(n % 10) + 1]>>

\* n as decimal digits without padding (n >= 0)
RECURSIVE Decimal(_)
Decimal(n) ==
    IF n < 10 THEN <<AsciiDigitSeq[n + 1]>>
    ELSE Decimal(n \div 10) \o <<AsciiDigitSeq[(n % 10) + 1]>>

\* n as four zero-padded decimal digits (n in 0..9999)
FourDigits(n) == TwoDigits(n \div 100) \o TwoDigits(n % 100)

\* date.strftime("%Y%m%d").  %Y is handed to the C library: builds on glibc
\* print a year below 1000 without leading zeros, other builds pad it to four
\* digits, so both texts are possible results.
StrftimeYmd(date) ==
    {yy \o TwoDigits(date.m) \o TwoDigits(date.d) :
        yy \in {FourDigits(date.y), Decimal(date.y)}}

(***************************************************************************)
(* compute_base_date_str                                                   *)
(***************************************************************************)
\* The shape strptime's "%Y-%m-%d %H:%M:%S" and the handler's format regex
\* share: nineteen characters with the separators in place.
SeparatorsOk(ts) ==
    /\ Len(ts) = 19
    /\ ts[5] = "-" /\ ts[8] = "-" /\ ts[11] = " "
    /\ ts[14] = ":" /\ ts[17] = ":"

\* strptime's regular expression for the format, on a text of that shape:
\* %Y \d\d\d\d, %m 1[0-2]|0[1-9], %d 3[0-1]|[1-2]\d|0[1-9],
\* %H 2[0-3]|[0-1]\d, %M [0-5]\d, %S 6[0-1]|[0-5]\d.  A literal digit or a
\* range in the expression is ASCII; \d is any decimal digit.
StrptimeMatches(ts) ==
    /\ SeparatorsOk(ts)
    /\ \A i \in 1..4 : IsDigit(ts[i])
    /\ \/ ts[6] = "1" /\ ts[7] \in {"0", "1", "2"}
       \/ ts[6] = "0" /\ ts[7] \in AsciiDigits \ {"0"}
    /\ \/ ts[9] = "3" /\ ts[10] \in {"0", "1"}
       \/ ts[9] \in {"1", "2"} /\ IsDigit(ts[10])
       \/ ts[9] = "0" /\ ts[10] \in AsciiDigits \ {"0"}
    /\ \/ ts[12] = "2" /\ ts[13] \in {"0", "1", "2", "3"}
       \/ ts[12] \in {"0", "1"} /\ IsDigit(ts[13])
    /\ ts[15] \in {"0", "1", "2", "3", "4", "5"} /\ IsDigit(ts[16])
    /\ \/ ts[18] = "6" /\ ts[19] \in {"0", "1"}
       \/ ts[18] \in {"0", "1", "2", "3", "4", "5"} /\ IsDigit(ts[19])

\* The fields strptime converts with int()
TsFields(ts) ==
    [y |-> IntOf(SubSeq(ts, 1, 4)),   m |-> IntOf(SubSeq(ts, 6, 7)),
     d |-> IntOf(SubSeq(ts, 9, 10)),  H |-> IntOf(SubSeq(ts, 12, 13)),
     M |-> IntOf(SubSeq(ts, 15, 16)), S |-> IntOf(SubSeq(ts, 18, 19))]

\* datetime.datetime.strptime(timestamp_str, "%Y-%m-%d %H:%M:%S"):
\* ValueError when the text does not match, the year is 0, the day is not
\* in the month or the second is 60 or 61.
Strptime(ts) ==
    IF ~StrptimeMatches(ts) THEN [ok |-> FALSE, exc |-> "ValueError"]
    ELSE LET f == TsFields(ts)
         IN  IF f.y < 1 \/ f.d > DaysInMonth(f.y, f.m) \/ f.S > 59
             THEN [ok |-> FALSE, exc |-> "ValueError"]
             ELSE [ok |-> TRUE, exc |-> "", dt |-> f]

BoundaryHour == 5

\* Mutant: the boundary compared with <= instead of <
BeforeBoundaryInclusive(dt) ==
    dt.H * 3600 + dt.M * 60 + dt.S <= BoundaryHour * 3600

\* dt.time() < datetime.time(5, 0, 0)
BeforeBoundary(dt) ==
    dt.H * 3600 + dt.M * 60 + dt.S < BoundaryHour * 3600

\* The base date before formatting (lines 18-23)
BaseDate(ts) ==
    LET p == Strptime(ts)
    IN  IF ~p.ok THEN [ok |-> FALSE, exc |-> p.exc]
        ELSE LET today == [y |-> p.dt.y, m |-> p.dt.m, d |-> p.dt.d]
             IN  IF BeforeBoundary(p.dt)
                 THEN LET prev == MinusOneDay(today)
                      IN  IF prev.ok
                          THEN [ok |-> TRUE, exc |-> "", date |-> prev.date]
                          ELSE [ok |-> FALSE, exc |-> "OverflowError"]
                 ELSE [ok |-> TRUE, exc |-> "", date |-> today]

\* compute_base_date_str(timestamp_str): the set of possible outcomes, each
\* either a raised exception or a returned text.
compute_base_date_str(ts) ==
    LET b == BaseDate(ts)
    IN  IF ~b.ok THEN {[ok |-> FALSE, exc |-> b.exc, str |-> <<>>]}
        ELSE {[ok |-> TRUE, exc |-> "", str |-> s] : s \in StrftimeYmd(b.date)}


(***************************************************************************)
(* Values of a payload field, as json.loads or the invoker supplies them:  *)
(* None (also an absent key, through dict.get), a str, or a value of       *)
(* another type (an int, held by its decimal text).                        *)
(***************************************************************************)
NoneV == [k |-> "none", s |-> <<>>]

StrV(s) == [k |-> "str", s |-> s]

IntV(s) == [k |-> "int", s |-> s]

\* str(v)
PyStr(v) == IF v.k = "none" THEN <<"N", "o", "n", "e">> ELSE v.s

\* isinstance(v, str)
IsStr(v) == v.k = "str"

FieldNames == <<"type", "userid", "timestamp">>

NoFields == [type |-> NoneV, userid |-> NoneV, timestamp |-> NoneV]

\* A record read with .get: a dict, or (dict = FALSE) a list, a number, a
\* str or None, which json.loads returns for a body that is not an object.
DictPayload(f) == [dict |-> TRUE, f |-> f]

NotADict == [dict |-> FALSE, f |-> NoFields]

(***************************************************************************)
(* parse_event_payload                                                     *)
(***************************************************************************)
\* An event: None, or a dict with an optional body and top-level fields.
\* body.k is "absent", "notstr" (a body that is no str) or "str"; for a str
\* body, body.json tells what json.loads makes of the text: "invalid"
\* (JSONDecodeError), "object" (a dict with the fields body.obj) or "other".
NoBody == [k |-> "absent", json |-> "invalid", obj |-> NoFields]

NonStrBody == [k |-> "notstr", json |-> "invalid", obj |-> NoFields]

BadJsonBody == [k |-> "str", json |-> "invalid", obj |-> NoFields]

ObjectBody(f) == [k |-> "str", json |-> "object", obj |-> f]

NonObjectBody == [k |-> "str", json |-> "other", obj |-> NoFields]

NoneEvent == [none |-> TRUE, body |-> NoBody, top |-> NoFields]

DictEvent(body, top) == [none |-> FALSE, body |-> body, top |-> top]

parse_event_payload(ev) ==
    IF ev.none THEN DictPayload(NoFields)
    ELSE IF ev.body.k = "str" /\ ev.body.json = "object"
         THEN DictPayload(ev.body.obj)
    ELSE IF ev.body.k = "str" /\ ev.body.json = "other"
         THEN NotADict
    ELSE DictPayload(ev.top)

(***************************************************************************)
(* The conditions of the validation rules                                  *)
(***************************************************************************)
Logon == <<"l", "o", "g", "o", "n">>

Logoff == <<"l", "o", "g", "o", "f", "f">>

\* payload.get(k) in (None, "")
IsMissing(v) == v.k = "none" \/ (v.k = "str" /\ v.s = <<>>)

\* [k for k in ("type", "userid", "timestamp") if payload.get(k) in (None, "")]
MissingFields(f) == SelectSeq(FieldNames, LAMBDA k : IsMissing(f[k]))

\* str(log_type) in ("logon", "logoff")
TypeAllowed(v) == PyStr(v) \in {Logon, Logoff}

UseridLimit == 15

\* Mutant: re.match in place of re.fullmatch, which accepts any text that
\* starts with an alphanumeric character
UseridMatchesPrefix(v) ==
    /\ IsStr(v)
    /\ Len(v.s) >= 1
    /\ v.s[1] \in AsciiUpper \cup AsciiLower \cup AsciiDigits

\* Mutant: the repetition bound off by one, {1,16}
UseridMatchesSixteen(v) ==
    /\ IsStr(v)
    /\ Len(v.s) >= 1 /\ Len(v.s) <= UseridLimit + 1
    /\ \A i \in 1..Len(v.s) :
          v.s[i] \in AsciiUpper \cup AsciiLower \cup AsciiDigits

\* re.fullmatch(r"[A-Za-z0-9]{1,15}", userid)
UseridMatches(v) ==
    /\ IsStr(v)
    /\ Len(v.s) >= 1 /\ Len(v.s) <= UseridLimit
    /\ \A i \in 1..Len(v.s) :
          v.s[i] \in AsciiUpper \cup AsciiLower \cup AsciiDigits

\* not (len(userid.encode("utf-8")) > 15)
UseridBytesOk(v) == IsStr(v) /\ ~(Utf8ByteLen(v.s) > UseridLimit)

\* Mutant: a format expression that also bounds the month,
\* \d{4}-(0[1-9]|1[0-2])-\d{2} \d{2}:\d{2}:\d{2}
TimestampFormatOkMonthRange(v) ==
    /\ IsStr(v)
    /\ SeparatorsOk(v.s)
    /\ \A i \in (1..19) \ {5, 8, 11, 14, 17} : IsDigit(v.s[i])
    /\ \/ v.s[6] = "0" /\ v.s[7] \in AsciiDigits \ {"0"}
       \/ v.s[6] = "1" /\ v.s[7] \in {"0", "1", "2"}

\* re.fullmatch(r"\d{4}-\d{2}-\d{2} \d{2}:\d{2}:\d{2}", timestamp)
TimestampFormatOk(v) ==
    /\ IsStr(v)
    /\ SeparatorsOk(v.s)
    /\ \A i \in (1..19) \ {5, 8, 11, 14, 17} : IsDigit(v.s[i])

(***************************************************************************)
(* The responses                                                           *)
(***************************************************************************)
MissingResp(missing) ==
    [statusCode |-> 400,
     body |-> [message |-> "missing required fields", missing |-> missing]]

\* Mutant: the value reported as str(log_type) instead of log_type
InvalidTypeRespStr(log_type) ==
    [statusCode |-> 400,
     body |-> [message |-> "invalid type", allowed |-> <<Logon, Logoff>>,
               value |-> StrV(PyStr(log_type))]]

InvalidTypeResp(log_type) ==
    [statusCode |-> 400,
     body |-> [message |-> "invalid type", allowed |-> <<Logon, Logoff>>,
               value |-> log_type]]

InvalidUseridTypeResp(userid) ==
    [statusCode |-> 400,
     body |-> [message |-> "invalid userid type", expected |-> "string",
               value |-> userid]]

InvalidUseridResp(userid) ==
    [statusCode |-> 400,
     body |-> [message |-> "invalid userid",
               rule |-> "alphanumeric only, length <= 15", value |-> userid]]

InvalidUseridLengthResp(userid) ==
    [statusCode |-> 400,
     body |-> [message |-> "invalid userid length", rule |-> "<= 15 bytes",
               value |-> userid]]

InvalidTimestampTypeResp(timestamp) ==
    [statusCode |-> 400,
     body |-> [message |-> "invalid timestamp type", expected |-> "string",
               value |-> timestamp]]

InvalidTimestampFormatResp(timestamp) ==
    [statusCode |-> 400,
     body |-> [message |-> "invalid timestamp format",
               expected |-> "YYYY-MM-DD HH:MM:SS", value |-> timestamp]]

\* error is str(e); the model keeps the name of the exception for its text
InvalidTimestampValueResp(e) ==
    [statusCode |-> 400,
     body |-> [message |-> "invalid timestamp value",
               expected |-> "YYYY-MM-DD HH:MM:SS", error |-> e]]

PutFailedResp(e) ==
    [statusCode |-> 500,
     body |-> [message |-> "failed to put object to S3", error |-> e]]

OkResp(bucket, key, date) ==
    [statusCode |-> 200,
     body |-> [bucket |-> bucket, key |-> key, date |-> date]]

\* No response: the invocation is running, or it ended with an exception.
NoResp == [statusCode |-> 0, body |-> [none |-> TRUE]]

(***************************************************************************)
(* Key and object                                                          *)
(***************************************************************************)
\* timestamp.replace(' ', 'T').replace(':', '-')
SafeTs(ts) == Replace(Replace(ts, " ", "T"), ":", "-")

\* Mutant: the key built without the timestamp
ObjectKeyNoTimestamp(prefix, date, userid, log_type, ts) ==
    prefix \o <<"/", "d", "a", "t", "e", "=">> \o date \o <<"/">>
      \o PyStr(userid) \o <<"_">> \o PyStr(log_type)
      \o <<".", "j", "s", "o", "n">>

\* f"{prefix}/date={date_str}/{userid}_{log_type}_{safe_ts}.json"
ObjectKey(prefix, date, userid, log_type, ts) ==
    prefix \o <<"/", "d", "a", "t", "e", "=">> \o date \o <<"/">>
      \o PyStr(userid) \o <<"_">> \o PyStr(log_type) \o <<"_">>
      \o SafeTs(ts) \o <<".", "j", "s", "o", "n">>

\* data = {"userid": str(userid), "type": str(log_type), "timestamp": str(timestamp)}
ObjectData(f) ==
    [userid |-> PyStr(f.userid), type |-> PyStr(f.type),
     timestamp |-> PyStr(f.timestamp)]

\* json.dumps(data, ensure_ascii=False).encode('cp932') succeeds: the braces,
\* quotes and key names are ASCII, the values are written unescaped.
BodyEncodable(data) ==
    Cp932Encodable(data.userid \o data.type \o data.timestamp)

\* The values of the SSM parameters /logonlogoff/prefixkey and
\* /logonlogoff/s3bucket
PrefixValue == <<"l", "o", "g", "s">>

BucketValue == <<"b", "k", "t">>


(***************************************************************************)
(* Inputs                                                                  *)
(***************************************************************************)
\* The text "YYYY-MM-DD HH:MM:SS" of six numbers (year 0..9999, the others
\* 0..99)
FormatTimestamp(t) ==
    FourDigits(t.y) \o <<"-">> \o TwoDigits(t.m) \o <<"-">> \o TwoDigits(t.d)
      \o <<" ">> \o TwoDigits(t.H) \o <<":">> \o TwoDigits(t.M) \o <<":">>
      \o TwoDigits(t.S)

Stamp(y, m, d, H, M, S) ==
    FormatTimestamp([y |-> y, m |-> m, d |-> d, H |-> H, M |-> M, S |-> S])

\* Longest userid the inputs hold, one more than the rule allows
MaxUseridLen == 16

TypeInputs ==
    {NoneV, StrV(Logon), StrV(Logoff), StrV(<<"w", "a", "l", "k">>),
     IntV(<<"5">>)}

UseridInputs ==
    {NoneV, StrV(<<>>), IntV(<<"7">>),
     StrV(<<"u", "s", "e", "r", "0", "0", "1">>),
     StrV(<<"u", "s", "e", "r", "!", "!">>),
     StrV(Repeat("U+30E6", 6))}
      \cup {StrV(Repeat("a", n)) : n \in UseridLimit..MaxUseridLen}

ValidStamps ==
    {Stamp(2025, 1, 1, 5, 0, 0), Stamp(2025, 1, 1, 4, 59, 0),
     Stamp(2025, 1, 2, 4, 59, 0), Stamp(2024, 3, 1, 0, 0, 0),
     Stamp(999, 1, 1, 5, 0, 0),
     [Stamp(2025, 1, 1, 5, 0, 0) EXCEPT ![1] = "U+FF12"],
     [Stamp(2025, 1, 1, 5, 0, 0) EXCEPT ![13] = "U+0665"]}

BadCalendarStamps ==
    {Stamp(2025, 13, 1, 5, 0, 0), Stamp(2025, 2, 29, 5, 0, 0),
     Stamp(2025, 1, 1, 24, 0, 0), Stamp(2025, 1, 1, 5, 0, 60),
     Stamp(0, 1, 1, 5, 0, 0), Stamp(1, 1, 1, 4, 59, 59),
     [Stamp(2025, 1, 1, 5, 0, 0) EXCEPT ![7] = "U+FF11"]}

BadFormatStamps ==
    {[Stamp(2025, 1, 1, 5, 0, 0) EXCEPT ![11] = "T"],
     Stamp(2025, 1, 1, 5, 0, 0) \o <<" ">>}

TimestampInputs ==
    {NoneV, StrV(<<>>), IntV(<<"7">>)}
      \cup {StrV(s) : s \in ValidStamps \cup BadCalendarStamps \cup BadFormatStamps}

FieldInputs ==
    {[type |-> t, userid |-> u, timestamp |-> ts] :
        t \in TypeInputs, u \in UseridInputs, ts \in TimestampInputs}

\* The fields the envelope events carry
EnvelopeFields ==
    {f \in FieldInputs :
        /\ f.type \in {StrV(Logon), NoneV}
        /\ f.userid \in {StrV(<<"u", "s", "e", "r", "0", "0", "1">>), IntV(<<"7">>)}
        /\ f.timestamp \in {StrV(Stamp(2025, 1, 1, 4, 59, 0)),
                            StrV(Stamp(2025, 13, 1, 5, 0, 0))}}

\* The events an invocation can receive: None, a flat object, an envelope
\* whose body is a JSON object, an envelope whose body is no JSON or no str
\* (the top-level fields are read), and an envelope whose body is JSON but
\* no object.
EventInputs ==
    {NoneEvent, DictEvent(NonObjectBody, NoFields)}
      \cup {DictEvent(NoBody, f) : f \in FieldInputs}
      \cup {DictEvent(ObjectBody(f), NoFields) : f \in EnvelopeFields}
      \cup {DictEvent(b, f) : b \in {BadJsonBody, NonStrBody},
                              f \in EnvelopeFields}

MaxMonthInput == 13

MaxDayInput == 32

YearInputs == {0, 1, 999, 1900, 2000, 2024, 2025, 9999}

TimeInputs ==
    {<<0, 0, 0>>, <<4, 59, 59>>, <<5, 0, 0>>, <<23, 59, 59>>, <<24, 0, 0>>,
     <<4, 59, 60>>, <<12, 60, 0>>}

DateInputs ==
    {[y |-> y, m |-> m, d |-> d, H |-> t[1], M |-> t[2], S |-> t[3]] :
        y \in YearInputs, m \in 0..MaxMonthInput, d \in 0..MaxDayInput,
        t \in TimeInputs}

(***************************************************************************)
(* State                                                                   *)
(***************************************************************************)
VARIABLES
    pc,           \* where the invocation of recieve_logonlogoff stands
    event,        \* the event of the invocation, until it is parsed
    payload,      \* payload
    date_str,     \* date_str
    object_key,   \* object_key
    bucket_name,  \* bucket_name
    put_calls,    \* the s3.put_object calls of this invocation
    resp,         \* the response returned
    exc,          \* the exception that ended the invocation, "" if none
    stored,       \* the object the latest successful put_object wrote
    d_in,         \* compute_base_date_str alone: the timestamp it is given
    d_out         \* compute_base_date_str alone: its outcome

vars ==
    <<pc, event, payload, date_str, object_key, bucket_name, put_calls, resp,
      exc, stored, d_in, d_out>>

locals == <<payload, date_str, object_key, bucket_name, put_calls>>

NoObject == [exists |-> FALSE, key |-> <<>>, data |-> ObjectData(NoFields)]

NoDateIn == [y |-> 2025, m |-> 1, d |-> 1, H |-> 5, M |-> 0, S |-> 0]

NoDateOut == [done |-> FALSE, ok |-> FALSE, exc |-> "", str |-> <<>>]

\* Mutant: the userid checks placed before the type check
CheckOrderUseridFirst ==
    <<"userid_type", "userid", "userid_len", "type", "ts_type", "ts_format",
      "ts_value">>

\* The order of the checks that follow the presence check
CheckOrder ==
    <<"type", "userid_type", "userid", "userid_len", "ts_type", "ts_format",
      "ts_value">>

\* Where a check that passes continues
StageAfter(stage) ==
    IF stage = "presence" THEN CheckOrder[1]
    ELSE LET i == CHOOSE j \in 1..Len(CheckOrder) : CheckOrder[j] = stage
         IN  IF i = Len(CheckOrder) THEN "prefix" ELSE CheckOrder[i + 1]

HandlerInit ==
    /\ pc = "idle"
    /\ event = NoneEvent
    /\ payload = DictPayload(NoFields)
    /\ date_str = <<>>
    /\ object_key = <<>>
    /\ bucket_name = <<>>
    /\ put_calls = <<>>
    /\ resp = NoResp
    /\ exc = ""
    /\ stored = NoObject

Init ==
    /\ HandlerInit
    /\ d_in = NoDateIn
    /\ d_out = NoDateOut

(***************************************************************************)
(* recieve_logonlogoff                                                     *)
(***************************************************************************)
\* return r
Return(r) ==
    /\ pc' = "done"
    /\ resp' = r
    /\ exc' = ""

\* an exception leaves the handler
Raise(e) ==
    /\ pc' = "done"
    /\ resp' = NoResp
    /\ exc' = e

Continue(stage) ==
    /\ pc' = StageAfter(stage)
    /\ UNCHANGED <<resp, exc>>

\* The platform calls the handler with an event.
Invoke(ev) ==
    /\ pc = "idle"
    /\ pc' = "extract"
    /\ event' = ev
    /\ UNCHANGED <<locals, resp, exc, stored, d_in, d_out>>

\* The platform takes the response or the exception; the frame of the
\* invocation is gone, and only the bucket keeps what was written.
Finish ==
    /\ pc = "done"
    /\ pc' = "idle"
    /\ payload' = DictPayload(NoFields)
    /\ date_str' = <<>>
    /\ object_key' = <<>>
    /\ bucket_name' = <<>>
    /\ put_calls' = <<>>
    /\ resp' = NoResp
    /\ exc' = ""
    /\ UNCHANGED <<event, stored, d_in, d_out>>

\* payload = parse_event_payload(event) and the three payload.get calls,
\* which raise AttributeError on a payload that is no dict.
Extract ==
    /\ pc = "extract"
    /\ LET p == parse_event_payload(event)
       IN  /\ payload' = p
           /\ IF p.dict
              THEN pc' = "presence" /\ UNCHANGED <<resp, exc>>
              ELSE Raise("AttributeError")
    /\ event' = NoneEvent
    /\ UNCHANGED <<date_str, object_key, bucket_name, put_calls, stored, d_in, d_out>>

CheckPresence ==
    /\ pc = "presence"
    /\ LET missing == MissingFields(payload.f)
       IN  IF missing # <<>> THEN Return(MissingResp(missing))
           ELSE Continue("presence")
    /\ UNCHANGED <<event, locals, stored, d_in, d_out>>

CheckType ==
    /\ pc = "type"
    /\ IF ~TypeAllowed(payload.f.type)
       THEN Return(InvalidTypeResp(payload.f.type))
       ELSE Continue("type")
    /\ UNCHANGED <<event, locals, stored, d_in, d_out>>

CheckUseridType ==
    /\ pc = "userid_type"
    /\ IF ~IsStr(payload.f.userid)
       THEN Return(InvalidUseridTypeResp(payload.f.userid))
       ELSE Continue("userid_type")
    /\ UNCHANGED <<event, locals, stored, d_in, d_out>>

CheckUserid ==
    /\ pc = "userid"
    /\ IF ~UseridMatches(payload.f.userid)
       THEN Return(InvalidUseridResp(payload.f.userid))
       ELSE Continue("userid")
    /\ UNCHANGED <<event, locals, stored, d_in, d_out>>

CheckUseridLength ==
    /\ pc = "userid_len"
    /\ IF ~UseridBytesOk(payload.f.userid)
       THEN Return(InvalidUseridLengthResp(payload.f.userid))
       ELSE Continue("userid_len")
    /\ UNCHANGED <<event, locals, stored, d_in, d_out>>

CheckTimestampType ==
    /\ pc = "ts_type"
    /\ IF ~IsStr(payload.f.timestamp)
       THEN Return(InvalidTimestampTypeResp(payload.f.timestamp))
       ELSE Continue("ts_type")
    /\ UNCHANGED <<event, locals, stored, d_in, d_out>>

CheckTimestampFormat ==
    /\ pc = "ts_format"
    /\ IF ~TimestampFormatOk(payload.f.timestamp)
       THEN Return(InvalidTimestampFormatResp(payload.f.timestamp))
       ELSE Continue("ts_format")
    /\ UNCHANGED <<event, locals, stored, d_in, d_out>>

\* date_str = compute_base_date_str(timestamp), any exception caught
CheckTimestampValue ==
    /\ pc = "ts_value"
    /\ \E o \in compute_base_date_str(payload.f.timestamp.s) :
          IF o.ok
          THEN date_str' = o.str /\ Continue("ts_value")
          ELSE Return(InvalidTimestampValueResp(o.exc)) /\ UNCHANGED date_str
    /\ UNCHANGED <<event, payload, object_key, bucket_name, put_calls, stored,
                   d_in, d_out>>

\* prefix = get_prefix(ssm), outside any try, then the key is built
GetPrefix ==
    /\ pc = "prefix"
    /\ \E found \in BOOLEAN :
          IF found
          THEN /\ object_key' = ObjectKey(PrefixValue, date_str,
                                          payload.f.userid, payload.f.type,
                                          payload.f.timestamp.s)
               /\ pc' = "bucket"
               /\ UNCHANGED <<resp, exc>>
          ELSE Raise("ClientError") /\ UNCHANGED object_key
    /\ UNCHANGED <<event, payload, date_str, bucket_name, put_calls, stored,
                   d_in, d_out>>

\* bucket_name = get_bucket_name(ssm), outside any try
GetBucket ==
    /\ pc = "bucket"
    /\ \E found \in BOOLEAN :
          IF found
          THEN /\ bucket_name' = BucketValue
               /\ pc' = "put"
               /\ UNCHANGED <<resp, exc>>
          ELSE Raise("ClientError") /\ UNCHANGED bucket_name
    /\ UNCHANGED <<event, payload, date_str, object_key, put_calls, stored,
                   d_in, d_out>>

\* The try block: the body is encoded while the arguments of put_object are
\* evaluated, then put_object is called; any exception gives the 500.
PutObject ==
    /\ pc = "put"
    /\ LET data == ObjectData(payload.f)
           req  == [Bucket |-> bucket_name, Key |-> object_key, Body |-> data,
                    ContentType |-> "application/json; charset=cp932"]
       IN  IF ~BodyEncodable(data)
           THEN /\ Return(PutFailedResp("UnicodeEncodeError"))
                /\ UNCHANGED <<put_calls, stored>>
           ELSE /\ put_calls' = Append(put_calls, req)
                /\ \E written \in BOOLEAN :
                      IF written
                      THEN /\ stored' = [exists |-> TRUE, key |-> object_key,
                                         data |-> data]
                           /\ Return(OkResp(bucket_name, object_key, date_str))
                      ELSE /\ Return(PutFailedResp("ClientError"))
                           /\ UNCHANGED stored
    /\ UNCHANGED <<event, payload, date_str, object_key, bucket_name, d_in, d_out>>

Next ==
    \/ \E ev \in EventInputs : Invoke(ev)
    \/ Extract
    \/ CheckPresence
    \/ CheckType
    \/ CheckUseridType
    \/ CheckUserid
    \/ CheckUseridLength
    \/ CheckTimestampType
    \/ CheckTimestampFormat
    \/ CheckTimestampValue
    \/ GetPrefix
    \/ GetBucket
    \/ PutObject
    \/ Finish

Spec == Init /\ [][Next]_vars

(***************************************************************************)
(* compute_base_date_str on its own, over a grid of dates and times        *)
(***************************************************************************)
DateInit ==
    /\ HandlerInit
    /\ d_in \in DateInputs
    /\ d_out = NoDateOut

DateCall ==
    /\ ~d_out.done
    /\ \E o \in compute_base_date_str(FormatTimestamp(d_in)) :
          d_out' = [done |-> TRUE, ok |-> o.ok, exc |-> o.exc, str |-> o.str]
    /\ UNCHANGED <<pc, event, locals, resp, exc, stored, d_in>>

DateNext == DateCall

DateSpec == DateInit /\ [][DateNext]_vars


(***************************************************************************)
(* Properties                                                              *)
(***************************************************************************)
User001 == <<"u", "s", "e", "r", "0", "0", "1">>

Responded == pc = "done" /\ exc = ""

Rejected == Responded /\ resp.statusCode = 400

\* The record is the EventRecord of the data model: a type of the enum, a
\* userid of 1 to 15 ASCII alphanumerics, a timestamp that passed the format
\* check and the calendar check.
IsEventRecord(p) ==
    /\ p.dict
    /\ p.f.type.k = "str" /\ p.f.type.s \in {Logon, Logoff}
    /\ p.f.userid.k = "str"
    /\ Len(p.f.userid.s) \in 1..15
    /\ \A i \in 1..Len(p.f.userid.s) :
          p.f.userid.s[i] \in AsciiUpper \cup AsciiLower \cup AsciiDigits
    /\ TimestampFormatOk(p.f.timestamp)
    /\ BaseDate(p.f.timestamp.s).ok

\* C1: put_object is attempted only after every validation rule has passed:
\* no invocation that is still validating or that ends with a 400 has
\* attempted a write, and whenever a write has been attempted the payload is
\* an EventRecord.
C1_WriteOnlyAfterValidation ==
    /\ pc \notin {"put", "done"} => put_calls = <<>>
    /\ Rejected => put_calls = <<>>
    /\ put_calls # <<>> => IsEventRecord(payload)

C1_Witness ==
    /\ Responded /\ resp.statusCode = 200
    /\ Len(put_calls) = 1
    /\ Len(payload.f.userid.s) = 15

\* The rules after the presence rule, in the order of the specification
RuleMessages ==
    <<"invalid type", "invalid userid type", "invalid userid",
      "invalid userid length", "invalid timestamp type",
      "invalid timestamp format", "invalid timestamp value">>

Violates(i, f) ==
    CASE i = 1 -> ~TypeAllowed(f.type)
      [] i = 2 -> ~IsStr(f.userid)
      [] i = 3 -> ~UseridMatches(f.userid)
      [] i = 4 -> ~UseridBytesOk(f.userid)
      [] i = 5 -> ~IsStr(f.timestamp)
      [] i = 6 -> ~TimestampFormatOk(f.timestamp)
      [] i = 7 -> ~BaseDate(f.timestamp.s).ok

ViolatedRules(f) == {i \in 1..7 : Violates(i, f)}

EarliestViolated(f) ==
    CHOOSE i \in ViolatedRules(f) : \A j \in ViolatedRules(f) : i <= j

\* C2: with the three fields present, a 400 carries the message of the
\* earliest violated rule in the fixed order, never that of a later rule.
C2_EarliestRuleReported ==
    (Rejected /\ MissingFields(payload.f) = <<>>) =>
        /\ ViolatedRules(payload.f) # {}
        /\ resp.body.message = RuleMessages[EarliestViolated(payload.f)]

C2_Witness ==
    /\ Rejected
    /\ resp.body.message = "invalid userid"
    /\ {3, 5} \subseteq ViolatedRules(payload.f)

\* The calendar as the specification states it
GregorianDaysInMonth(y, m) ==
    IF m \in {4, 6, 9, 11} THEN 30
    ELSE IF m # 2 THEN 31
    ELSE IF (y % 4 = 0 /\ y % 100 # 0) \/ y % 400 = 0 THEN 29
    ELSE 28

IsCalendarDateTime(t) ==
    /\ t.y \in 1..9999 /\ t.m \in 1..12
    /\ t.d >= 1 /\ t.d <= GregorianDaysInMonth(t.y, t.m)
    /\ t.H \in 0..23 /\ t.M \in 0..59 /\ t.S \in 0..59

PreviousDay(t) ==
    IF t.d > 1 THEN [y |-> t.y, m |-> t.m, d |-> t.d - 1]
    ELSE IF t.m > 1
         THEN [y |-> t.y, m |-> t.m - 1, d |-> GregorianDaysInMonth(t.y, t.m - 1)]
    ELSE [y |-> t.y - 1, m |-> 12, d |-> 31]

\* The one calendar date-time the validation rejects: a time before 05:00:00
\* on 0001-01-01, whose previous day no date can hold.
BeforeFirstDay(t) == t.y = 1 /\ t.m = 1 /\ t.d = 1 /\ t.H < 5

\* C3: for a timestamp that passes validation, compute_base_date_str gives
\* the calendar date D when the time of day is 05:00:00 or later and the
\* previous calendar day D-1 when it is earlier, across month and year
\* ends; it raises exactly on the texts that name no calendar date-time and
\* on a time before 05:00:00 of 0001-01-01.
C3_BoundaryRule ==
    d_out.done =>
        IF IsCalendarDateTime(d_in) /\ ~BeforeFirstDay(d_in)
        THEN /\ d_out.ok
             /\ d_out.str \in StrftimeYmd(
                    IF d_in.H < 5 THEN PreviousDay(d_in)
                    ELSE [y |-> d_in.y, m |-> d_in.m, d |-> d_in.d])
        ELSE ~d_out.ok

C3_Witness ==
    /\ d_out.done /\ d_out.ok
    /\ d_in = [y |-> 2025, m |-> 1, d |-> 1, H |-> 4, M |-> 59, S |-> 59]
    /\ d_out.str = <<"2", "0", "2", "4", "1", "2", "3", "1">>

Month13Fields ==
    [type |-> StrV(Logon), userid |-> StrV(User001),
     timestamp |-> StrV(Stamp(2025, 13, 1, 5, 0, 0))]

\* C4 (as amended): the input with timestamp "2025-13-01 05:00:00" passes
\* the format expression, whose \d{2} accepts 13, and is rejected by the
\* calendar check with status 400 and message "invalid timestamp value".
C4_Month13FailsCalendarCheck ==
    (pc = "done" /\ payload.f = Month13Fields) =>
        /\ Rejected
        /\ resp.body.message = "invalid timestamp value"
        /\ resp.body.error = "ValueError"

C4_Witness == pc = "done" /\ payload.f = Month13Fields

\* C4 as claimed: that input is rejected with "invalid timestamp format".
C4_AsClaimed ==
    (pc = "done" /\ payload.f = Month13Fields) =>
        /\ Rejected
        /\ resp.body.message = "invalid timestamp format"

\* The field a rejection is about
OffendingValue(message, f) ==
    CASE message = "invalid type" -> f.type
      [] message \in {"invalid userid type", "invalid userid",
                      "invalid userid length"} -> f.userid
      [] message \in {"invalid timestamp type", "invalid timestamp format"}
           -> f.timestamp

\* C5 (as amended): every validation failure gives status 400 and a body with
\* a message.  The body holds the original offending value under "value" for
\* the six rules from invalid type to invalid timestamp format; the presence
\* rule lists the missing keys under "missing" and the timestamp-validity
\* rule gives the parse error under "error", and neither has a "value".
C5_RejectionBodies ==
    Rejected =>
        /\ "message" \in DOMAIN resp.body
        /\ resp.body.message \in
             {"missing required fields"} \cup {RuleMessages[i] : i \in 1..7}
        /\ IF resp.body.message = "missing required fields"
           THEN /\ DOMAIN resp.body = {"message", "missing"}
                /\ resp.body.missing = MissingFields(payload.f)
           ELSE IF resp.body.message = "invalid timestamp value"
           THEN DOMAIN resp.body = {"message", "expected", "error"}
           ELSE /\ "value" \in DOMAIN resp.body
                /\ resp.body.value = OffendingValue(resp.body.message, payload.f)

C5_Witness ==
    /\ Rejected
    /\ resp.body.message = "invalid type"
    /\ resp.body.value = IntV(<<"5">>)

\* C5 as claimed: every validation failure has a body with message and value.
C5_AsClaimed ==
    Rejected => {"message", "value"} \subseteq DOMAIN resp.body

\* C6: every invocation that got past extraction ends by returning a
\* response with status 200, 400 or 500, a failed lookup of the prefix or of
\* the bucket name included; no exception leaves the handler.
C6_EveryFailureIsAResponse ==
    (pc = "done" /\ payload.dict) =>
        /\ exc = ""
        /\ resp.statusCode \in {200, 400, 500}

\* C7: whatever the event (None, a body that is no JSON, a body that is any
\* JSON text), the extracted payload can be read as a record and the
\* invocation reaches validation without an exception.
C7_ExtractionNeverAborts ==
    pc \notin {"idle", "extract"} => (payload.dict /\ exc # "AttributeError")

\* C8: an invocation whose payload passed validation and that returned a
\* response attempted the write exactly once; a failed write gives the 500
\* "failed to put object to S3", a successful one the 200 with the bucket
\* and the key that were passed to the write.
C8_ExactlyOneWrite ==
    (Responded /\ resp.statusCode \in {200, 500}) =>
        /\ Len(put_calls) = 1
        /\ resp.statusCode = 500 =>
              resp.body.message = "failed to put object to S3"
        /\ resp.statusCode = 200 =>
              /\ resp.body.bucket = put_calls[1].Bucket
              /\ resp.body.key = put_calls[1].Key

\* safeTimestamp as the specification words it: the space at its place
\* replaced by T, the two colons at theirs by hyphens
SafeTimestampByPosition(ts) ==
    [i \in 1..Len(ts) |-> IF i = 11 THEN "T"
                          ELSE IF i \in {14, 17} THEN "-"
                          ELSE ts[i]]

KeyTemplate(date, f) ==
    PrefixValue \o <<"/", "d", "a", "t", "e", "=">> \o date \o <<"/">>
      \o f.userid.s \o <<"_">> \o f.type.s \o <<"_">>
      \o SafeTimestampByPosition(f.timestamp.s) \o <<".", "j", "s", "o", "n">>

\* C9: the key of a validated payload is
\* {prefix}/date={PartitionDate}/{userid}_{type}_{safeTimestamp}.json, and
\* two validated payloads that differ in userid, type or timestamp never get
\* the same key: a key equal to that of the object stored before belongs to
\* the same (userid, type, timestamp).
C9_KeyTemplateAndInjective ==
    object_key # <<>> =>
        /\ object_key = KeyTemplate(date_str, payload.f)
        /\ (stored.exists /\ stored.key = object_key) =>
              stored.data = ObjectData(payload.f)

C9_Witness ==
    /\ pc = "put"
    /\ stored.exists
    /\ stored.data.userid = PyStr(payload.f.userid)
    /\ stored.data.type = PyStr(payload.f.type)
    /\ stored.data.timestamp # PyStr(payload.f.timestamp)
    /\ stored.key # object_key

\* C10: the byte-length rule never rejects: every userid that reaches it has
\* passed the charset rule and is at most 15 bytes long, so no invocation
\* returns "invalid userid length".
C10_ByteLengthRuleNeverRejects ==
    /\ pc = "userid_len" => Utf8ByteLen(payload.f.userid.s) <= 15
    /\ Rejected => resp.body.message # "invalid userid length"

C10_Witness ==
    /\ pc = "userid_len"
    /\ Len(payload.f.userid.s) = 15
    /\ Utf8ByteLen(payload.f.userid.s) = 15

=============================================================================
